---- MODULE Spec2Model ----
(***************************************************************************)
(* effect-react: hooks that run Effect fibers from React components and    *)
(* project their exits into a component-scoped store, and the              *)
(* EffectProvider that builds (and disposes) the ManagedRuntime of a       *)
(* subtree.                                                                *)
(*                                                                         *)
(* Spec          one component instance using one of the hooks             *)
(*               (useRunEffect, useEffectCallback, useEffectStateAsync,    *)
(*               useService, useEffectReducer, useEffectState, useStream), *)
(*               with the fibers it forked.                                *)
(* SpecRebuild   the same component when the provider above it replaces    *)
(*               the runtime it provides.                                  *)
(* SpecProvider  a tree of nested EffectProviders.                         *)
(* SpecStore     one component store (reactive.ts) with its listeners.     *)
(***************************************************************************)
EXTENDS Integers, Sequences, FiniteSets, TLC

\* Bound: number of values started per hook instance (fibers forked plus
\* plain values handed to a setter).
MaxStarts == 3

VARIABLES
    hook,          \* which hook the component instance calls
    phase,         \* "rendered" (effects not yet run), "mounted", "unmounted"
    store,         \* createComponentStore: currentValue of the result store
    pendingStore,  \* useEffectStateAsync: currentValue of the pending store
    fiberRef,      \* fiberRef.current (0 is null)
    effectFiber,   \* the `fiber` captured by the cleanup of the last effect run (0: none)
    fibers,        \* every fiber forked so far, by fiber id
    nextValue,     \* label of the next value started
    lateSets,      \* number of store.set calls on the result store after unmount
    hookRuntime,   \* the value of EffectRuntimeContext where the component is
                   \* rendered: 0 is null (no EffectProvider above), 1 and 2 name
                   \* the runtime the provider above provides
    state,         \* useEffectReducer: the state the last render returned
                   \* (useSyncExternalStore's snapshot at that render)
    currentState,  \* useEffectReducer: `currentState` of the latest dispatch, the
                   \* state its reducer call was given
    burst,         \* history: every start so far was made with no earlier fiber settled
                   \* (useEffectStateAsync: every setter Effect so far was passed after
                   \* the initial fiber settled and with no earlier setter fiber settled)
    mounted,          \* EffectProvider p is in the tree
    layer,            \* layerRef.current: the layer prop of p's last render
    effectiveLayer,   \* memo of lines 56-75: its deps and its value
    runtime,          \* memo of lines 77-80: the ManagedRuntime p provides
    activeRuntimeRef, \* activeRuntimeRef.current
    effectRuntime,    \* `currentRuntime` captured by the effect of lines 88-104
    runtimes,         \* the ManagedRuntimes still referred to, by name
    microtasks,       \* callbacks queued with queueMicrotask, oldest first
    leaked,           \* history: a runtime nothing refers to any more was dropped
                      \* without dispose() ever called on it
    strictMode,       \* the tree is rendered under React.StrictMode
    currentValue,  \* createComponentStore: currentValue
    listeners,     \* createComponentStore: the Set of listeners, in insertion order
    passes,        \* the set() calls in progress, outermost first: the position
                   \* of each one's `for (const listener of listeners)` loop
    calls,         \* history: number of set() calls made so far
    arg,           \* history: the argument of the latest set() call
    writer,        \* history: the set() call that wrote currentValue (0: initial)
    seen,          \* history: per listener, the call whose value it read last
    repeated       \* history: subscribe was called with a listener that was
                   \* registered, and no call has changed the listeners since

hookVars == <<hook, phase, store, pendingStore, fiberRef, effectFiber, fibers,
              nextValue, lateSets, hookRuntime, state, currentState, burst>>

providerVars == <<mounted, layer, effectiveLayer, runtime, activeRuntimeRef,
                  effectRuntime, runtimes, microtasks, leaked, strictMode>>

storeVars == <<currentValue, listeners, passes, calls, arg, writer, seen, repeated>>

vars == <<hookVars, providerVars, storeVars>>

Hooks == {"useRunEffect", "useEffectCallback", "useEffectStateAsync", "useService",
          "useEffectReducer", "useEffectState", "useStream"}

\* The three ways an effect handed to a hook can end by itself.
Kinds == {"Success", "Failure", "Die"}

----------------------------------------------------------------------------
(* types.ts and the Initial state of useEffectCallback *)

Loading == [tag |-> "Loading", value |-> 0]

Success(v) == [tag |-> "Success", value |-> v]

Failure(e) == [tag |-> "Failure", value |-> e]

Initial == [tag |-> "Initial", value |-> 0]

----------------------------------------------------------------------------
(* createComponentStore (reactive.ts) *)

\* Bounds: listeners that may subscribe, values handed to set (compared by
\* identity), set() calls made.
NumListeners == 2

NumValues == 2

MaxSets == 2

Listeners == 1..NumListeners

Values == 1..NumValues

Range(seq) == {seq[i] : i \in DOMAIN seq}

IndexOf(seq, x) == CHOOSE i \in DOMAIN seq : seq[i] = x

RemoveAt(seq, i) == [j \in 1..(Len(seq) - 1) |-> IF j < i THEN seq[j] ELSE seq[j + 1]]

\* The store as its operations see it.
Store == [currentValue |-> currentValue, listeners |-> listeners, passes |-> passes]

\* A set() call that has passed the identity check and enters its loop over
\* the listeners.  cursor is the number of entries of the Set the loop's
\* iterator has gone past; snapshot, invoked and changed (the Set was changed
\* while the loop was running) are history.
Pass(st, call) ==
    [call |-> call, cursor |-> 0, snapshot |-> st.listeners, invoked |-> <<>>,
     changed |-> FALSE]

\* set without the identity check.
set_NoIdentityCheck(st, v, call) ==
    [st EXCEPT !.currentValue = v, !.passes = Append(@, Pass(st, call))]

\* set that publishes nothing when called from inside a notification.
set_NoReentrantNotify(st, v, call) ==
    IF st.currentValue = v THEN st
    ELSE IF st.passes # <<>> THEN [st EXCEPT !.currentValue = v]
    ELSE [st EXCEPT !.currentValue = v, !.passes = Append(@, Pass(st, call))]

\* set(value) up to the start of its loop (reactive.ts 44-50).
set(st, v, call) ==
    IF st.currentValue = v THEN st
    ELSE [st EXCEPT !.currentValue = v, !.passes = Append(@, Pass(st, call))]

\* subscribe with an array in place of the Set: every call adds an entry.
subscribe_Push(st, l) ==
    [st EXCEPT !.listeners = Append(@, l),
               !.passes = [k \in DOMAIN @ |-> [@[k] EXCEPT !.changed = TRUE]]]

\* subscribe(listener): listeners.add(listener) (reactive.ts 55-56).  A Set
\* keeps one entry per listener and appends a new entry at the end.
subscribe(st, l) ==
    IF l \in Range(st.listeners) THEN st
    ELSE [st EXCEPT !.listeners = Append(@, l),
                    !.passes = [k \in DOMAIN @ |-> [@[k] EXCEPT !.changed = TRUE]]]

\* The function subscribe returned: listeners.delete(listener)
\* (reactive.ts 57-59).  A loop in progress goes on from where it is: an
\* entry deleted behind its iterator does not move it forward.
unsubscribe(st, l) ==
    IF l \notin Range(st.listeners) THEN st
    ELSE LET i == IndexOf(st.listeners, l)
         IN  [st EXCEPT !.listeners = RemoveAt(@, i),
                        !.passes = [k \in DOMAIN @ |->
                                      IF i <= @[k].cursor
                                      THEN [@[k] EXCEPT !.cursor = @ - 1,
                                                        !.changed = TRUE]
                                      ELSE [@[k] EXCEPT !.changed = TRUE]]]

\* What a caller (the host, or a listener callback) does with the store.
Ops ==
    {[name |-> "getSnapshot", x |-> 0]}
    \cup [name : {"subscribe", "unsubscribe"}, x : Listeners]
    \cup [name : {"set"}, x : Values]

Apply(st, op, call) ==
    IF op.name = "set" THEN set(st, op.x, call)
    ELSE IF op.name = "subscribe" THEN subscribe(st, op.x)
    ELSE IF op.name = "unsubscribe" THEN unsubscribe(st, op.x)
    ELSE st

CommitStore(st, op) ==
    /\ currentValue' = st.currentValue
    /\ listeners' = st.listeners
    /\ passes' = st.passes
    /\ calls' = IF op.name = "set" THEN calls + 1 ELSE calls
    /\ arg' = IF op.name = "set" THEN op.x ELSE arg
    /\ writer' = IF st.currentValue # currentValue THEN calls + 1 ELSE writer
    /\ repeated' = IF st.listeners # listeners THEN FALSE
                   ELSE IF op.name = "subscribe" THEN TRUE
                   ELSE repeated

\* The host calls an operation of the store while no set() is in progress.
HostCall(op) ==
    /\ passes = <<>>
    /\ op.name = "set" => calls < MaxSets
    /\ CommitStore(Apply(Store, op, calls + 1), op)
    /\ UNCHANGED <<seen, hookVars, providerVars>>

\* The loop of the innermost set() in progress calls the next listener
\* (reactive.ts 50-52); the callback reads the snapshot and calls op.
ListenerRuns(op) ==
    /\ passes # <<>>
    /\ passes[Len(passes)].cursor < Len(listeners)
    /\ op.name = "set" => calls < MaxSets
    /\ LET top == Len(passes)
           l   == listeners[passes[top].cursor + 1]
           st  == [Store EXCEPT !.passes[top].cursor = @ + 1,
                                !.passes[top].invoked = Append(@, l)]
       IN  /\ seen' = [seen EXCEPT ![l] = writer]
           /\ CommitStore(Apply(st, op, calls + 1), op)
    /\ UNCHANGED <<hookVars, providerVars>>

\* The loop of the innermost set() in progress has no entry left: set
\* returns.
ReturnFromSet ==
    /\ passes # <<>>
    /\ passes[Len(passes)].cursor >= Len(listeners)
    /\ passes' = SubSeq(passes, 1, Len(passes) - 1)
    /\ UNCHANGED <<currentValue, listeners, calls, arg, writer, seen, repeated,
                   hookVars, providerVars>>

\* A store just created with the first of the values, nothing subscribed.
StoreIdle ==
    /\ currentValue = 1
    /\ listeners = <<>>
    /\ passes = <<>>
    /\ calls = 0
    /\ arg = 0
    /\ writer = 0
    /\ seen = [l \in Listeners |-> 0]
    /\ repeated = FALSE

----------------------------------------------------------------------------
(* The runtime collaborator: fibers *)

\* runtime.runFork(effect).  The fiber starts running inside runFork, so an
\* effect that never suspends (sync) is already done when runFork returns.
runFork(fs, kind, interruptible, sync, origin, v) ==
    Append(fs, [kind |-> kind, interruptible |-> interruptible, value |-> v,
                origin |-> origin, req |-> FALSE, done |-> sync,
                exit |-> IF sync THEN kind ELSE "None"])

\* fiber.unsafeInterruptAsFork(fiber.id()): requests interruption, does not wait.
unsafeInterruptAsFork(fs, f) ==
    IF fs[f].done THEN fs ELSE [fs EXCEPT ![f].req = TRUE]

\* The exit a running fiber reports: interruption wins only where the effect
\* is interruptible; an uninterruptible effect runs to its own outcome.
ExitOf(fib) ==
    IF fib.req /\ fib.interruptible THEN "Interrupted" ELSE fib.kind

Exit(fib, tag) == [tag |-> tag, value |-> fib.value]

isSuccess(exit) == exit.tag = "Success"

isInterruptedOnly(exit) == exit.tag = "Interrupted"

\* Cause.failureOption: Some only for a typed failure, None for a defect.
failureOption(exit) == IF exit.tag = "Failure" THEN "Some" ELSE "None"

Running(fs) == {f \in DOMAIN fs : ~fs[f].done}

\* A computation that asks for a tag absent from the runtime's context: the
\* lookup throws inside the fiber, which the runtime reports as a defect.
serviceNotFound == "Die"

----------------------------------------------------------------------------
(* The hook's mutable cell: what an observer or a handler can write *)

Cell == [store |-> store, pendingStore |-> pendingStore, fiberRef |-> fiberRef,
         lateSets |-> lateSets]

\* store.set(value) on the result store (reactive.ts), counted when it is
\* called after the component has unmounted.
StoreSet(c, v) ==
    [c EXCEPT !.store = IF c.store = v THEN c.store ELSE v,
              !.lateSets = IF phase = "unmounted" THEN @ + 1 ELSE @]

Commit(c) ==
    /\ store' = c.store
    /\ pendingStore' = c.pendingStore
    /\ fiberRef' = c.fiberRef
    /\ lateSets' = c.lateSets

----------------------------------------------------------------------------
(* useEffectRuntime and the first render of the component *)

\* useEffectRuntime with a runtime of its own to fall back on when no
\* provider is found.
useEffectRuntime_GlobalDefault(context) ==
    [threw |-> FALSE, runtime |-> IF context = 0 THEN 1 ELSE context]

\* useEffectRuntime() (useEffectRuntime.ts 9-18): the runtime of the nearest
\* EffectProvider, or an Error thrown into the render.
useEffectRuntime(context) ==
    IF context = 0 THEN [threw |-> TRUE, runtime |-> 0]
    ELSE [threw |-> FALSE, runtime |-> context]

\* The runtime a rebuilt provider hands to the component: a ManagedRuntime
\* that is not the one of the previous render.
newRuntime == IF hookRuntime = 1 THEN 2 ELSE 1

\* The first render of a component that calls one of the fiber hooks: the
\* hook asks for the runtime first; a render that throws never mounts.
\* useEffectCallback and useEffectReducer have no mount effect body.
FirstRender ==
    /\ hook \in {"useRunEffect", "useEffectCallback", "useEffectStateAsync",
                 "useService", "useEffectReducer", "useStream"}
    /\ phase = "unrendered"
    /\ phase' = IF useEffectRuntime(hookRuntime).threw THEN "threw"
                ELSE IF hook \in {"useEffectCallback", "useEffectReducer"} THEN "mounted"
                ELSE "rendered"
    /\ UNCHANGED <<providerVars, storeVars, state, currentState, hookRuntime, hook, store, pendingStore,
                   fiberRef, effectFiber, fibers, nextValue, lateSets, burst>>

----------------------------------------------------------------------------
(* useRunEffect *)

\* The observer without its isInterruptedOnly check: interruption falls
\* through to the failure branch.
RunEffectObserver_NoInterruptCheck(c, exit) ==
    IF isSuccess(exit) THEN StoreSet(c, Success(exit.value))
    ELSE StoreSet(c, Failure(exit.value))

\* The observer with the test on failureOption turned around: a typed
\* failure is not projected.
RunEffectObserver_DropsFailure(c, exit) ==
    IF isSuccess(exit) THEN StoreSet(c, Success(exit.value))
    ELSE IF isInterruptedOnly(exit) THEN c
    ELSE IF failureOption(exit) = "None" THEN StoreSet(c, Failure(exit.value))
    ELSE c

\* The observer added to the fiber (useRunEffect.ts 63-76).
RunEffectObserver(c, exit) ==
    IF isSuccess(exit) THEN StoreSet(c, Success(exit.value))
    ELSE IF isInterruptedOnly(exit) THEN c
    ELSE IF failureOption(exit) = "Some" THEN StoreSet(c, Failure(exit.value))
    ELSE c

\* The effect body: set Loading, fork, observe.  addObserver calls the
\* observer at once when the fiber is already done.
RunEffectBody(fs, kind, interruptible, sync) ==
    LET c1  == StoreSet(Cell, Loading)
        fs1 == runFork(fs, kind, interruptible, sync, "effect", nextValue)
        id  == Len(fs1)
        c2  == IF fs1[id].done
               THEN RunEffectObserver(c1, Exit(fs1[id], fs1[id].exit))
               ELSE c1
    IN  /\ fibers' = fs1
        /\ effectFiber' = id
        /\ Commit(c2)
        /\ nextValue' = nextValue + 1
        /\ burst' = (burst /\ Running(fs) = DOMAIN fs)

\* First run of the effect after the first render.
RunEffectMount(kind, interruptible, sync) ==
    /\ hook = "useRunEffect"
    /\ phase = "rendered"
    /\ phase' = "mounted"
    /\ RunEffectBody(fibers, kind, interruptible, sync)
    /\ UNCHANGED <<hook, hookRuntime, state, currentState, providerVars, storeVars>>

\* A dependency changed: the cleanup of the previous run interrupts its
\* fiber, then the effect body runs again.
RunEffectDepsChange(kind, interruptible, sync) ==
    /\ hook = "useRunEffect"
    /\ phase = "mounted"
    /\ nextValue <= MaxStarts
    /\ RunEffectBody(unsafeInterruptAsFork(fibers, effectFiber),
                     kind, interruptible, sync)
    /\ UNCHANGED <<providerVars, storeVars, state, currentState, hookRuntime, hook, phase>>

\* The runtime changed (it is the first dependency of the effect): cleanup,
\* then the body again, on the new runtime.
RunEffectRuntimeChange(kind, interruptible, sync) ==
    /\ hook = "useRunEffect"
    /\ phase = "mounted"
    /\ nextValue <= MaxStarts
    /\ hookRuntime' = newRuntime
    /\ RunEffectBody(unsafeInterruptAsFork(fibers, effectFiber),
                     kind, interruptible, sync)
    /\ UNCHANGED <<providerVars, storeVars, state, currentState, hook, phase>>

\* Unmount: the cleanup of the last run interrupts its fiber.
RunEffectUnmount ==
    /\ hook = "useRunEffect"
    /\ phase = "mounted"
    /\ phase' = "unmounted"
    /\ fibers' = unsafeInterruptAsFork(fibers, effectFiber)
    /\ UNCHANGED <<providerVars, storeVars, state, currentState, hookRuntime, hook, store, pendingStore, fiberRef, effectFiber,
                   nextValue, lateSets, burst>>

\* The runtime reports the exit of a running fiber to its observer.
RunEffectSettle(f) ==
    /\ hook = "useRunEffect"
    /\ f \in Running(fibers)
    /\ LET tag == ExitOf(fibers[f])
       IN  /\ fibers' = [fibers EXCEPT ![f].done = TRUE, ![f].exit = tag]
           /\ Commit(RunEffectObserver(Cell, Exit(fibers[f], tag)))
    /\ UNCHANGED <<providerVars, storeVars, state, currentState, hookRuntime, hook, phase, effectFiber, nextValue, burst>>

----------------------------------------------------------------------------
(* useEffectCallback *)

\* The observer added by run() (useEffectCallback.ts 91-104).
CallbackObserver(c, exit) ==
    LET c1 == [c EXCEPT !.fiberRef = 0]
    IN  IF isSuccess(exit) THEN StoreSet(c1, Success(exit.value))
        ELSE IF isInterruptedOnly(exit) THEN c1
        ELSE IF failureOption(exit) = "Some" THEN StoreSet(c1, Failure(exit.value))
        ELSE c1

\* run(...args) (useEffectCallback.ts 78-107).
CallbackRun(kind, interruptible, sync) ==
    /\ hook = "useEffectCallback"
    /\ phase = "mounted"
    /\ nextValue <= MaxStarts
    /\ LET fs0 == IF fiberRef # 0 THEN unsafeInterruptAsFork(fibers, fiberRef)
                  ELSE fibers
           c1  == StoreSet(Cell, Loading)
           fs1 == runFork(fs0, kind, interruptible, sync, "run", nextValue)
           id  == Len(fs1)
           c2  == [c1 EXCEPT !.fiberRef = id]
           c3  == IF fs1[id].done
                  THEN CallbackObserver(c2, Exit(fs1[id], fs1[id].exit))
                  ELSE c2
       IN  /\ fibers' = fs1
           /\ Commit(c3)
    /\ nextValue' = nextValue + 1
    /\ burst' = (burst /\ Running(fibers) = DOMAIN fibers)
    /\ UNCHANGED <<providerVars, storeVars, state, currentState, hookRuntime, hook, phase, effectFiber>>

\* reset() (useEffectCallback.ts 109-115).
CallbackReset ==
    /\ hook = "useEffectCallback"
    /\ phase = "mounted"
    /\ fibers' = IF fiberRef # 0 THEN unsafeInterruptAsFork(fibers, fiberRef)
                 ELSE fibers
    /\ Commit(StoreSet([Cell EXCEPT !.fiberRef = 0], Initial))
    /\ burst' = FALSE
    /\ UNCHANGED <<providerVars, storeVars, state, currentState, hookRuntime, hook, phase, effectFiber, nextValue>>

\* The runtime changed: run and reset are memoised anew (useEffectCallback.ts
\* 106, 115); the cleanup effect has no dependencies and does not run.
CallbackRuntimeChange ==
    /\ hook = "useEffectCallback"
    /\ phase = "mounted"
    /\ hookRuntime' = newRuntime
    /\ UNCHANGED <<providerVars, storeVars, state, currentState, hook, phase, store, pendingStore, fiberRef,
                   effectFiber, fibers, nextValue, lateSets, burst>>

\* The unmount cleanup (useEffectCallback.ts 69-76).
CallbackUnmount ==
    /\ hook = "useEffectCallback"
    /\ phase = "mounted"
    /\ phase' = "unmounted"
    /\ fibers' = IF fiberRef # 0 THEN unsafeInterruptAsFork(fibers, fiberRef)
                 ELSE fibers
    /\ fiberRef' = 0
    /\ UNCHANGED <<providerVars, storeVars, state, currentState, hookRuntime, hook, store, pendingStore, effectFiber, nextValue,
                   lateSets, burst>>

CallbackSettle(f) ==
    /\ hook = "useEffectCallback"
    /\ f \in Running(fibers)
    /\ LET tag == ExitOf(fibers[f])
       IN  /\ fibers' = [fibers EXCEPT ![f].done = TRUE, ![f].exit = tag]
           /\ Commit(CallbackObserver(Cell, Exit(fibers[f], tag)))
    /\ UNCHANGED <<providerVars, storeVars, state, currentState, hookRuntime, hook, phase, effectFiber, nextValue, burst>>

----------------------------------------------------------------------------
(* useService *)

\* The observer added to the fiber that resolves the tag (useService.ts 48-55).
ServiceObserver(c, exit) ==
    IF isSuccess(exit) THEN StoreSet(c, Success(exit.value))
    ELSE IF isInterruptedOnly(exit) THEN c
    ELSE StoreSet(c, Failure(exit.value))

\* The effect body (useService.ts 44-60): fork the tag, observe.
ServiceBody(fs, kind, interruptible, sync) ==
    LET fs1 == runFork(fs, kind, interruptible, sync, "effect", nextValue)
        id  == Len(fs1)
        c1  == IF fs1[id].done
               THEN ServiceObserver(Cell, Exit(fs1[id], fs1[id].exit))
               ELSE Cell
    IN  /\ fibers' = fs1
        /\ effectFiber' = id
        /\ Commit(c1)
        /\ nextValue' = nextValue + 1
        /\ burst' = (burst /\ Running(fs) = DOMAIN fs)

ServiceMount(kind, interruptible, sync) ==
    /\ hook = "useService"
    /\ phase = "rendered"
    /\ phase' = "mounted"
    /\ ServiceBody(fibers, kind, interruptible, sync)
    /\ UNCHANGED <<hook, hookRuntime, state, currentState, providerVars, storeVars>>

\* The tag changed: cleanup, then the effect body again.
ServiceDepsChange(kind, interruptible, sync) ==
    /\ hook = "useService"
    /\ phase = "mounted"
    /\ nextValue <= MaxStarts
    /\ ServiceBody(unsafeInterruptAsFork(fibers, effectFiber),
                   kind, interruptible, sync)
    /\ UNCHANGED <<providerVars, storeVars, state, currentState, hookRuntime, hook, phase>>

\* The runtime changed: cleanup, then the effect body again, on the new
\* runtime.
ServiceRuntimeChange(kind, interruptible, sync) ==
    /\ hook = "useService"
    /\ phase = "mounted"
    /\ nextValue <= MaxStarts
    /\ hookRuntime' = newRuntime
    /\ ServiceBody(unsafeInterruptAsFork(fibers, effectFiber),
                   kind, interruptible, sync)
    /\ UNCHANGED <<providerVars, storeVars, state, currentState, hook, phase>>

ServiceUnmount ==
    /\ hook = "useService"
    /\ phase = "mounted"
    /\ phase' = "unmounted"
    /\ fibers' = unsafeInterruptAsFork(fibers, effectFiber)
    /\ UNCHANGED <<providerVars, storeVars, state, currentState, hookRuntime, hook, store, pendingStore, fiberRef, effectFiber,
                   nextValue, lateSets, burst>>

ServiceSettle(f) ==
    /\ hook = "useService"
    /\ f \in Running(fibers)
    /\ LET tag == ExitOf(fibers[f])
       IN  /\ fibers' = [fibers EXCEPT ![f].done = TRUE, ![f].exit = tag]
           /\ Commit(ServiceObserver(Cell, Exit(fibers[f], tag)))
    /\ UNCHANGED <<providerVars, storeVars, state, currentState, hookRuntime, hook, phase, effectFiber, nextValue, burst>>

----------------------------------------------------------------------------
(* useEffectStateAsync *)

\* Observer of the initial fiber (useEffectStateAsync.ts 84-95).
StateAsyncInitialObserver(c, exit) ==
    LET c1 == [c EXCEPT !.pendingStore = FALSE]
    IN  IF isSuccess(exit) THEN StoreSet(c1, Success(exit.value))
        ELSE IF isInterruptedOnly(exit) THEN c1
        ELSE IF failureOption(exit) = "Some" THEN StoreSet(c1, Failure(exit.value))
        ELSE c1

\* Observer of a setter fiber (useEffectStateAsync.ts 118-130).
StateAsyncSetterObserver(c, exit) ==
    LET c1 == [c EXCEPT !.fiberRef = 0, !.pendingStore = FALSE]
    IN  IF isSuccess(exit) THEN StoreSet(c1, Success(exit.value))
        ELSE IF isInterruptedOnly(exit) THEN c1
        ELSE IF failureOption(exit) = "Some" THEN StoreSet(c1, Failure(exit.value))
        ELSE c1

\* The mount effect body (useEffectStateAsync.ts 81-100).
StateAsyncBody(fs, kind, interruptible, sync) ==
    LET fs1 == runFork(fs, kind, interruptible, sync, "initial", nextValue)
        id  == Len(fs1)
        c1  == IF fs1[id].done
               THEN StateAsyncInitialObserver(Cell, Exit(fs1[id], fs1[id].exit))
               ELSE Cell
    IN  /\ fibers' = fs1
        /\ effectFiber' = id
        /\ Commit(c1)
        /\ nextValue' = nextValue + 1
        /\ burst' = (fs = <<>>)

StateAsyncMount(kind, interruptible, sync) ==
    /\ hook = "useEffectStateAsync"
    /\ phase = "rendered"
    /\ phase' = "mounted"
    /\ StateAsyncBody(fibers, kind, interruptible, sync)
    /\ UNCHANGED <<hook, hookRuntime, state, currentState, providerVars, storeVars>>

\* The runtime changed: cleanup of the initial effect, then its body again.
StateAsyncRuntimeChange(kind, interruptible, sync) ==
    /\ hook = "useEffectStateAsync"
    /\ phase = "mounted"
    /\ nextValue <= MaxStarts
    /\ hookRuntime' = newRuntime
    /\ StateAsyncBody(unsafeInterruptAsFork(fibers, effectFiber),
                      kind, interruptible, sync)
    /\ UNCHANGED <<providerVars, storeVars, state, currentState, hook, phase>>

\* setState(next) with an Effect (useEffectStateAsync.ts 104-131).
StateAsyncSetEffect(kind, interruptible, sync) ==
    /\ hook = "useEffectStateAsync"
    /\ phase = "mounted"
    /\ nextValue <= MaxStarts
    /\ LET fs0 == IF fiberRef # 0 THEN unsafeInterruptAsFork(fibers, fiberRef)
                  ELSE fibers
           c1  == [Cell EXCEPT !.fiberRef = 0, !.pendingStore = TRUE]
           fs1 == runFork(fs0, kind, interruptible, sync, "setter", nextValue)
           id  == Len(fs1)
           c2  == [c1 EXCEPT !.fiberRef = id]
           c3  == IF fs1[id].done
                  THEN StateAsyncSetterObserver(c2, Exit(fs1[id], fs1[id].exit))
                  ELSE c2
       IN  /\ fibers' = fs1
           /\ Commit(c3)
    /\ nextValue' = nextValue + 1
    /\ burst' = (burst /\ \A f \in DOMAIN fibers :
                             fibers[f].done = (fibers[f].origin = "initial"))
    /\ UNCHANGED <<providerVars, storeVars, state, currentState, hookRuntime, hook, phase, effectFiber>>

\* setState(next) with a plain value (useEffectStateAsync.ts 104-136).
StateAsyncSetPlain ==
    /\ hook = "useEffectStateAsync"
    /\ phase = "mounted"
    /\ nextValue <= MaxStarts
    /\ fibers' = IF fiberRef # 0 THEN unsafeInterruptAsFork(fibers, fiberRef)
                 ELSE fibers
    /\ Commit(StoreSet([Cell EXCEPT !.fiberRef = 0], Success(nextValue)))
    /\ nextValue' = nextValue + 1
    /\ burst' = FALSE
    /\ UNCHANGED <<providerVars, storeVars, state, currentState, hookRuntime, hook, phase, effectFiber>>

\* Unmount: cleanup of the initial effect, cleanup of the setter fiber
\* (useEffectStateAsync.ts 97-99, 140-147).
StateAsyncUnmount ==
    /\ hook = "useEffectStateAsync"
    /\ phase = "mounted"
    /\ phase' = "unmounted"
    /\ LET fs0 == unsafeInterruptAsFork(fibers, effectFiber)
       IN  fibers' = IF fiberRef # 0 THEN unsafeInterruptAsFork(fs0, fiberRef)
                     ELSE fs0
    /\ fiberRef' = 0
    /\ UNCHANGED <<providerVars, storeVars, state, currentState, hookRuntime, hook, store, pendingStore, effectFiber, nextValue,
                   lateSets, burst>>

StateAsyncSettle(f) ==
    /\ hook = "useEffectStateAsync"
    /\ f \in Running(fibers)
    /\ LET tag == ExitOf(fibers[f])
           ex  == Exit(fibers[f], tag)
       IN  /\ fibers' = [fibers EXCEPT ![f].done = TRUE, ![f].exit = tag]
           /\ Commit(IF fibers[f].origin = "initial"
                     THEN StateAsyncInitialObserver(Cell, ex)
                     ELSE StateAsyncSetterObserver(Cell, ex))
    /\ UNCHANGED <<providerVars, storeVars, state, currentState, hookRuntime, hook, phase, effectFiber, nextValue, burst>>

----------------------------------------------------------------------------
(* useEffectReducer *)

\* The reducer's state as the store holds it.
State(v) == [tag |-> "State", value |-> v]

\* The observer without the check that its fiber is still the current one.
ReducerObserver_NoGuard(c, f, exit) ==
    LET c1 == [c EXCEPT !.fiberRef = 0, !.pendingStore = FALSE]
    IN  IF isSuccess(exit) THEN StoreSet(c1, State(exit.value)) ELSE c1

\* The observer with a failure slot: a failure that is not interruption only
\* is written to the state store.
ReducerObserver_StoresFailure(c, f, exit) ==
    IF c.fiberRef # f THEN c
    ELSE LET c1 == [c EXCEPT !.fiberRef = 0, !.pendingStore = FALSE]
         IN  IF isSuccess(exit) THEN StoreSet(c1, State(exit.value))
             ELSE IF isInterruptedOnly(exit) THEN c1
             ELSE StoreSet(c1, State(exit.value))

\* The observer dispatch adds to fiber f (useEffectReducer.ts 108-121).
ReducerObserver(c, f, exit) ==
    IF c.fiberRef # f THEN c
    ELSE LET c1 == [c EXCEPT !.fiberRef = 0, !.pendingStore = FALSE]
         IN  IF isSuccess(exit) THEN StoreSet(c1, State(exit.value)) ELSE c1

\* dispatch(action) where the reducer returns an Effect
\* (useEffectReducer.ts 94-121).
ReducerDispatchEffect(kind, interruptible, sync) ==
    /\ hook = "useEffectReducer"
    /\ phase = "mounted"
    /\ nextValue <= MaxStarts
    /\ LET fs0 == IF fiberRef # 0 THEN unsafeInterruptAsFork(fibers, fiberRef)
                  ELSE fibers
           c1  == [Cell EXCEPT !.pendingStore = TRUE]
           fs1 == runFork(fs0, kind, interruptible, sync, "dispatch", nextValue)
           id  == Len(fs1)
           c2  == [c1 EXCEPT !.fiberRef = id]
           c3  == IF fs1[id].done
                  THEN ReducerObserver(c2, id, Exit(fs1[id], fs1[id].exit))
                  ELSE c2
       IN  /\ fibers' = fs1
           /\ Commit(c3)
    /\ nextValue' = nextValue + 1
    /\ burst' = (burst /\ Running(fibers) = DOMAIN fibers)
    /\ currentState' = store.value
    /\ UNCHANGED <<providerVars, storeVars, state, hookRuntime, hook, phase, effectFiber>>

\* The plain-value branch that leaves fiberRef.current and the pending flag
\* as they are.
ReducerDispatchPlain_KeepsFiberRef ==
    /\ hook = "useEffectReducer"
    /\ phase = "mounted"
    /\ nextValue <= MaxStarts
    /\ fibers' = IF fiberRef # 0 THEN unsafeInterruptAsFork(fibers, fiberRef)
                 ELSE fibers
    /\ Commit(StoreSet(Cell, State(nextValue)))
    /\ nextValue' = nextValue + 1
    /\ burst' = FALSE
    /\ currentState' = store.value
    /\ UNCHANGED <<providerVars, storeVars, state, hookRuntime, hook, phase, effectFiber>>

\* The plain-value branch that clears fiberRef.current without
\* pendingStore.set(false).
ReducerDispatchPlain_KeepsPending ==
    /\ hook = "useEffectReducer"
    /\ phase = "mounted"
    /\ nextValue <= MaxStarts
    /\ fibers' = IF fiberRef # 0 THEN unsafeInterruptAsFork(fibers, fiberRef)
                 ELSE fibers
    /\ Commit(StoreSet([Cell EXCEPT !.fiberRef = 0], State(nextValue)))
    /\ nextValue' = nextValue + 1
    /\ burst' = FALSE
    /\ currentState' = store.value
    /\ UNCHANGED <<providerVars, storeVars, state, hookRuntime, hook, phase, effectFiber>>

\* The plain-value branch of a dispatch that hands the reducer the state of
\* the last render instead of store.getSnapshot().
ReducerDispatchPlain_ReadsRenderedState ==
    /\ hook = "useEffectReducer"
    /\ phase = "mounted"
    /\ nextValue <= MaxStarts
    /\ fibers' = IF fiberRef # 0 THEN unsafeInterruptAsFork(fibers, fiberRef)
                 ELSE fibers
    /\ LET c1 == IF fiberRef # 0
                 THEN [Cell EXCEPT !.fiberRef = 0, !.pendingStore = FALSE]
                 ELSE Cell
       IN  Commit(StoreSet(c1, State(nextValue)))
    /\ nextValue' = nextValue + 1
    /\ burst' = FALSE
    /\ currentState' = state
    /\ UNCHANGED <<providerVars, storeVars, state, hookRuntime, hook, phase, effectFiber>>

\* dispatch(action) where the reducer returns a plain value
\* (useEffectReducer.ts 94-97, 122-131).
ReducerDispatchPlain ==
    /\ hook = "useEffectReducer"
    /\ phase = "mounted"
    /\ nextValue <= MaxStarts
    /\ fibers' = IF fiberRef # 0 THEN unsafeInterruptAsFork(fibers, fiberRef)
                 ELSE fibers
    /\ LET c1 == IF fiberRef # 0
                 THEN [Cell EXCEPT !.fiberRef = 0, !.pendingStore = FALSE]
                 ELSE Cell
       IN  Commit(StoreSet(c1, State(nextValue)))
    /\ nextValue' = nextValue + 1
    /\ burst' = FALSE
    /\ currentState' = store.value
    /\ UNCHANGED <<providerVars, storeVars, state, hookRuntime, hook, phase, effectFiber>>

\* The component renders again after the state store changed
\* (useSyncExternalStore, useEffectReducer.ts 77-81) and returns the store's
\* snapshot as state.
ReducerRender ==
    /\ hook = "useEffectReducer"
    /\ phase = "mounted"
    /\ state # store.value
    /\ state' = store.value
    /\ UNCHANGED <<providerVars, storeVars, hookRuntime, hook, phase, store, pendingStore,
                   fiberRef, effectFiber, fibers, nextValue, lateSets, currentState, burst>>

\* The runtime changed: dispatch is memoised anew (useEffectReducer.ts 133);
\* the cleanup effect has no dependencies and does not run.
ReducerRuntimeChange ==
    /\ hook = "useEffectReducer"
    /\ phase = "mounted"
    /\ hookRuntime' = newRuntime
    /\ UNCHANGED <<providerVars, storeVars, state, currentState, hook, phase, store, pendingStore, fiberRef,
                   effectFiber, fibers, nextValue, lateSets, burst>>

\* The unmount cleanup (useEffectReducer.ts 84-91).
ReducerUnmount ==
    /\ hook = "useEffectReducer"
    /\ phase = "mounted"
    /\ phase' = "unmounted"
    /\ fibers' = IF fiberRef # 0 THEN unsafeInterruptAsFork(fibers, fiberRef)
                 ELSE fibers
    /\ fiberRef' = 0
    /\ UNCHANGED <<providerVars, storeVars, state, currentState, hookRuntime, hook, store, pendingStore, effectFiber, nextValue,
                   lateSets, burst>>

ReducerSettle(f) ==
    /\ hook = "useEffectReducer"
    /\ f \in Running(fibers)
    /\ LET tag == ExitOf(fibers[f])
       IN  /\ fibers' = [fibers EXCEPT ![f].done = TRUE, ![f].exit = tag]
           /\ Commit(ReducerObserver(Cell, f, Exit(fibers[f], tag)))
    /\ UNCHANGED <<providerVars, storeVars, state, currentState, hookRuntime, hook, phase, effectFiber, nextValue, burst>>

----------------------------------------------------------------------------
(* useEffectState, the synchronous variant (hooks/useEffectState.ts) *)

\* What React holds for the component before its first render: no state.
NoState == [tag |-> "NoState", value |-> 0]

\* runtime.runSync(effect): the effect is run on a fiber of its own and the
\* fiber is polled on return; anything but a value there (the effect
\* suspended, failed or died) is thrown to the caller.
runSync(fs, kind, sync, v) ==
    LET fs1 == runFork(fs, kind, TRUE, sync, "runSync", v)
        fib == fs1[Len(fs1)]
    IN  [fibers |-> fs1,
         threw  |-> ~(fib.done /\ fib.exit = "Success"),
         value  |-> v]

\* A first render that shows Loading and leaves the value to the fiber.
EffectStateRender_LoadingFirst(kind, sync) ==
    /\ hook = "useEffectState"
    /\ phase = "unrendered"
    /\ IF useEffectRuntime(hookRuntime).threw
       THEN /\ phase' = "threw"
            /\ UNCHANGED <<store, fibers, nextValue>>
       ELSE /\ fibers' = runFork(fibers, kind, TRUE, sync, "runSync", nextValue)
            /\ nextValue' = nextValue + 1
            /\ phase' = "mounted"
            /\ store' = Loading
    /\ UNCHANGED <<providerVars, storeVars, state, currentState, hookRuntime, hook, pendingStore, fiberRef,
                   effectFiber, lateSets, burst>>

\* The first render (useEffectState.ts 35-39): useEffectRuntime(), then the
\* useState initialiser runs the initial Effect with runSync.  A render that
\* throws never mounts.
EffectStateRender(kind, sync) ==
    /\ hook = "useEffectState"
    /\ phase = "unrendered"
    /\ IF useEffectRuntime(hookRuntime).threw
       THEN /\ phase' = "threw"
            /\ UNCHANGED <<store, fibers, nextValue>>
       ELSE LET r == runSync(fibers, kind, sync, nextValue)
            IN  /\ fibers' = r.fibers
                /\ nextValue' = nextValue + 1
                /\ phase' = IF r.threw THEN "threw" ELSE "mounted"
                /\ store' = IF r.threw THEN store ELSE State(r.value)
    /\ UNCHANGED <<providerVars, storeVars, state, currentState, hookRuntime, hook, pendingStore, fiberRef,
                   effectFiber, lateSets, burst>>

\* setEffectState(next) with an Effect (useEffectState.ts 41-45): runSync
\* throws out of the setter before setState is reached.
EffectStateSetEffect(kind, sync) ==
    /\ hook = "useEffectState"
    /\ phase = "mounted"
    /\ nextValue <= MaxStarts
    /\ LET r == runSync(fibers, kind, sync, nextValue)
       IN  /\ fibers' = r.fibers
           /\ store' = IF r.threw THEN store ELSE State(r.value)
    /\ nextValue' = nextValue + 1
    /\ UNCHANGED <<providerVars, storeVars, state, currentState, hookRuntime, hook, phase, pendingStore,
                   fiberRef, effectFiber, lateSets, burst>>

\* setEffectState(next) with a plain value (useEffectState.ts 41-48).
EffectStateSetPlain ==
    /\ hook = "useEffectState"
    /\ phase = "mounted"
    /\ nextValue <= MaxStarts
    /\ store' = State(nextValue)
    /\ nextValue' = nextValue + 1
    /\ UNCHANGED <<providerVars, storeVars, state, currentState, hookRuntime, hook, phase, pendingStore,
                   fiberRef, effectFiber, fibers, lateSets, burst>>

\* The runtime changed: setEffectState is memoised anew (useEffectState.ts
\* 50); the state stays.
EffectStateRuntimeChange ==
    /\ hook = "useEffectState"
    /\ phase = "mounted"
    /\ hookRuntime' = newRuntime
    /\ UNCHANGED <<providerVars, storeVars, state, currentState, hook, phase, store, pendingStore, fiberRef,
                   effectFiber, fibers, nextValue, lateSets, burst>>

\* Unmount: the hook registers no cleanup.
EffectStateUnmount ==
    /\ hook = "useEffectState"
    /\ phase = "mounted"
    /\ phase' = "unmounted"
    /\ UNCHANGED <<providerVars, storeVars, state, currentState, hookRuntime, hook, store, pendingStore,
                   fiberRef, effectFiber, fibers, nextValue, lateSets, burst>>

\* A fiber runSync left suspended ends; nothing observes it.
EffectStateSettle(f) ==
    /\ hook = "useEffectState"
    /\ f \in Running(fibers)
    /\ fibers' = [fibers EXCEPT ![f].done = TRUE, ![f].exit = ExitOf(fibers[f])]
    /\ UNCHANGED <<providerVars, storeVars, state, currentState, hookRuntime, hook, phase, store,
                   pendingStore, fiberRef, effectFiber, nextValue, lateSets, burst>>

----------------------------------------------------------------------------
(* useStream (hooks/useStream.ts) *)

\* Bound: the number of values a stream emits before it ends.
MaxEmissions == 2

\* runtime.runFork of the stream's consumer (useStream.ts 51-67) for a stream
\* that emits the values 1..length and then ends as `kind` says: normally,
\* with a typed error or with a defect.  `emitted` counts the values its
\* runForEach callback was given; `exit` is how the stream ended, which the
\* catchAllCause handler is given.
streamFork(fs, kind, interruptible, length, v) ==
    Append(fs, [kind |-> kind, interruptible |-> interruptible, value |-> v,
                origin |-> "stream", req |-> FALSE, done |-> FALSE,
                exit |-> "None", length |-> length, emitted |-> 0])

\* The consumer of a stream fiber that is not stopped by an interruption.
StreamGoesOn(fib) == ~fib.done /\ ~(fib.req /\ fib.interruptible)

\* The mount effect body (useStream.ts 48-72).  The store is left as it is.
StreamMount(kind, interruptible, length) ==
    /\ hook = "useStream"
    /\ phase = "rendered"
    /\ phase' = "mounted"
    /\ fibers' = streamFork(fibers, kind, interruptible, length, nextValue)
    /\ effectFiber' = Len(fibers')
    /\ nextValue' = nextValue + 1
    /\ UNCHANGED <<providerVars, storeVars, state, currentState, hookRuntime, hook, store,
                   pendingStore, fiberRef, lateSets, burst>>

\* The runtime changed: cleanup, then the effect body again.  The stream is
\* the one streamRef captured at the first render, consumed from its start.
StreamRuntimeChange ==
    /\ hook = "useStream"
    /\ phase = "mounted"
    /\ nextValue <= MaxStarts
    /\ hookRuntime' = newRuntime
    /\ LET old == fibers[effectFiber]
       IN  fibers' = streamFork(unsafeInterruptAsFork(fibers, effectFiber),
                                old.kind, old.interruptible, old.length, nextValue)
    /\ effectFiber' = Len(fibers')
    /\ nextValue' = nextValue + 1
    /\ UNCHANGED <<providerVars, storeVars, state, currentState, hook, phase, store,
                   pendingStore, fiberRef, lateSets, burst>>

\* The stream of fiber f emits its next value: the runForEach callback
\* (useStream.ts 54-57) sets Success(value).
StreamEmit(f) ==
    /\ hook = "useStream"
    /\ f \in DOMAIN fibers
    /\ StreamGoesOn(fibers[f])
    /\ fibers[f].emitted < fibers[f].length
    /\ fibers' = [fibers EXCEPT ![f].emitted = @ + 1]
    /\ Commit(StoreSet(Cell, Success(fibers[f].emitted + 1)))
    /\ UNCHANGED <<providerVars, storeVars, state, currentState, hookRuntime, hook, phase,
                   effectFiber, nextValue, burst>>

\* The handler that sets nothing for a failed stream.
StreamHandler_DropsFailure(c, exit) == c

\* The catchAllCause handler (useStream.ts 59-66).
StreamHandler(c, exit) ==
    IF isInterruptedOnly(exit) THEN c
    ELSE IF failureOption(exit) = "Some" THEN StoreSet(c, Failure(exit.value))
    ELSE c

\* The consumer of fiber f ends: it was interrupted, or the stream has
\* emitted all its values and ends normally or with a cause, which the
\* handler is given.
StreamEnd(f) ==
    /\ hook = "useStream"
    /\ f \in Running(fibers)
    /\ StreamGoesOn(fibers[f]) => fibers[f].emitted = fibers[f].length
    /\ LET tag == ExitOf(fibers[f])
       IN  /\ fibers' = [fibers EXCEPT ![f].done = TRUE, ![f].exit = tag]
           /\ Commit(IF tag = "Success" THEN Cell
                     ELSE StreamHandler(Cell, Exit(fibers[f], tag)))
    /\ UNCHANGED <<providerVars, storeVars, state, currentState, hookRuntime, hook, phase,
                   effectFiber, nextValue, burst>>

\* Unmount: the cleanup interrupts the consumer's fiber (useStream.ts 69-71).
StreamUnmount ==
    /\ hook = "useStream"
    /\ phase = "mounted"
    /\ phase' = "unmounted"
    /\ fibers' = unsafeInterruptAsFork(fibers, effectFiber)
    /\ UNCHANGED <<providerVars, storeVars, state, currentState, hookRuntime, hook, store,
                   pendingStore, fiberRef, effectFiber, nextValue, lateSets, burst>>

----------------------------------------------------------------------------
(* EffectProvider (providers/EffectProvider.tsx) *)

\* The tree of provider positions: 2 is nested in 1, 3 in 2, and 4 is a
\* sibling of 2.  Parent[p] = 0 for the root.
Providers == 1..4

Parent == <<0, 1, 2, 1>>

Tags == {"A", "B"}

\* Bound: number of distinct layer references handed to providers.
NumLayers == 3

Layers == 1..NumLayers

\* The service tags a layer declares.  Layers l and l + 2 are structurally
\* identical and referentially different.
LayerTags(l) == IF l % 2 = 1 THEN {"A"} ELSE {"B"}

NoInstance == <<>>

\* Object identity of ManagedRuntimes.  <<p, k>> names a runtime made by the
\* provider at position p; NoRuntime is null.  A name is reused only after
\* nothing refers to the object any more (as the addresses of a
\* garbage-collected heap are), so equal names always mean the same object
\* among the objects the program can still compare.
NoRuntime == <<0, 0>>

freshRuntime(rts, p) ==
    LET used == {r[2] : r \in {x \in DOMAIN rts : x[1] = p}}
    IN  <<p, CHOOSE k \in 1..(Cardinality(used) + 1) :
                 /\ k \notin used
                 /\ \A j \in 1..(k - 1) : j \in used>>

EmptyContext == [t \in Tags |-> NoInstance]

NoLayer == [deps |-> <<NoRuntime, 0>>, parentContext |-> EmptyContext, layer |-> 0]

Descendants(p) ==
    {q \in Providers : q # p /\ (Parent[q] = p \/ (Parent[q] # 0 /\ Parent[Parent[q]] = p))}

\* Memo dependencies compared by the structure of the layer instead of its
\* reference.
depsChanged_Structural(old, new) ==
    \/ old[1] # new[1]
    \/ old[2] = 0
    \/ LayerTags(old[2]) # LayerTags(new[2])

\* Memo dependencies that leave out parentRuntime: only the layer reference
\* is compared.
depsChanged_LayerOnly(old, new) == old[2] # new[2]

\* Memo dependencies that leave out the layer prop, so that the layer held in
\* layerRef is read on the first render and on parent rebuilds only.
depsChanged_ParentOnly(old, new) == old[1] # new[1] \/ old[2] = 0

\* React compares memo dependencies by reference (Object.is).
depsChanged(old, new) == old # new

\* The merge with the parent's services built again by the child's runtime
\* instead of carried over as instances.
buildContext_Rebuilt(parentContext, l, rid) ==
    [t \in Tags |-> IF t \in LayerTags(l) \/ parentContext[t] # NoInstance
                    THEN <<rid, t>> ELSE NoInstance]

\* The merge biased to the left: a parent instance wins over the child's
\* declaration.
buildContext_ParentWins(parentContext, l, rid) ==
    [t \in Tags |-> IF parentContext[t] # NoInstance THEN parentContext[t]
                    ELSE IF t \in LayerTags(l) THEN <<rid, t>> ELSE NoInstance]

\* Layer.merge(Layer.succeedContext(parentContext), currentLayer), as built
\* by ManagedRuntime.make for the runtime with id rid: the layer's own
\* services are built anew, the others are the parent's live instances.
buildContext(parentContext, l, rid) ==
    [t \in Tags |-> IF t \in LayerTags(l) THEN <<rid, t>> ELSE parentContext[t]]

\* The state one render pass threads through the providers it renders.
Tree == [layer |-> layer, effectiveLayer |-> effectiveLayer, runtime |-> runtime,
         activeRuntimeRef |-> activeRuntimeRef, effectRuntime |-> effectRuntime,
         runtimes |-> runtimes, microtasks |-> microtasks]

\* One render of provider p with layer prop l, followed by the commit of its
\* effects (EffectProvider.tsx 46-113).
renderProvider(st, p, l) ==
    LET parentRuntime == IF Parent[p] = 0 THEN NoRuntime ELSE st.runtime[Parent[p]]
        deps == <<parentRuntime, l>>
        eff  == IF depsChanged(st.effectiveLayer[p].deps, deps)
                THEN [deps |-> deps,
                      parentContext |-> IF parentRuntime = NoRuntime THEN EmptyContext
                                        ELSE st.runtimes[parentRuntime].context,
                      layer |-> l]
                ELSE st.effectiveLayer[p]
        make == eff # st.effectiveLayer[p]
        rid  == IF make THEN freshRuntime(st.runtimes, p) ELSE st.runtime[p]
        made == [context |-> buildContext(eff.parentContext, eff.layer, rid),
                 layer |-> eff.layer, disposed |-> FALSE]
        rts  == IF make
                THEN [r \in DOMAIN st.runtimes \cup {rid} |->
                        IF r = rid THEN made ELSE st.runtimes[r]]
                ELSE st.runtimes
        \* effect of lines 88-104, deps [runtime]: cleanup of the previous
        \* run queues the deferred disposal, then the effect runs again.
        rerun == rid # st.effectRuntime[p]
        mts  == IF rerun /\ st.effectRuntime[p] # NoRuntime
                THEN Append(st.microtasks,
                            [provider |-> p, currentRuntime |-> st.effectRuntime[p]])
                ELSE st.microtasks
    IN  [st EXCEPT !.layer[p] = l,
                   !.effectiveLayer[p] = eff,
                   !.runtime[p] = rid,
                   !.activeRuntimeRef[p] = rid,
                   !.effectRuntime[p] = rid,
                   !.runtimes = rts,
                   !.microtasks = mts]

\* A render pass that starts at provider p: p renders with layer prop l, and
\* every mounted provider below whose context value (the parent's runtime)
\* changed in this pass renders again with its own unchanged layer prop.
RECURSIVE renderPass(_, _, _, _)
renderPass(st, p, l, q) ==
    IF q > Cardinality(Providers) THEN st
    ELSE LET st1 == IF q = p THEN renderProvider(st, q, l)
                    ELSE IF /\ q \in Descendants(p)
                            /\ mounted[q]
                            /\ st.runtime[Parent[q]] # runtime[Parent[q]]
                         THEN renderProvider(st, q, layer[q])
                         ELSE st
         IN  renderPass(st1, p, l, q + 1)

CommitTree(st) ==
    /\ layer' = st.layer
    /\ effectiveLayer' = st.effectiveLayer
    /\ runtime' = st.runtime
    /\ activeRuntimeRef' = st.activeRuntimeRef
    /\ effectRuntime' = st.effectRuntime
    /\ runtimes' = st.runtimes
    /\ microtasks' = st.microtasks

\* The effects of provider p are cleaned up and set up again with no render
\* in between, as StrictMode does right after the first mount: both
\* cleanups run (EffectProvider.tsx 90-103, 108-112), then both effects.
reattach(st, p) ==
    [st EXCEPT !.microtasks = Append(@, [provider |-> p,
                                         currentRuntime |-> st.effectRuntime[p]]),
               !.activeRuntimeRef[p] = NoRuntime,
               !.effectRuntime[p] = st.runtime[p]]

\* Provider p is added to the tree under a mounted parent.
ProviderMount(p, l) ==
    /\ ~mounted[p]
    /\ IF Parent[p] = 0 THEN TRUE ELSE mounted[Parent[p]]
    /\ microtasks = <<>>
    /\ mounted' = [mounted EXCEPT ![p] = TRUE]
    /\ LET st == renderPass(Tree, p, l, 1)
       IN  CommitTree(IF strictMode THEN reattach(st, p) ELSE st)
    /\ UNCHANGED <<leaked, strictMode, hookVars, storeVars>>

\* Provider p renders again with layer prop l (the same reference or not).
ProviderRender(p, l) ==
    /\ mounted[p]
    /\ microtasks = <<>>
    /\ CommitTree(renderPass(Tree, p, l, 1))
    /\ UNCHANGED <<mounted, leaked, strictMode, hookVars, storeVars>>

\* The unmount whose cleanup leaves activeRuntimeRef.current as it is.
ProviderUnmount_KeepsActiveRef(p) ==
    /\ mounted[p]
    /\ microtasks = <<>>
    /\ LET gone == {q \in {p} \cup Descendants(p) : mounted[q]}
           RECURSIVE queue(_, _)
           queue(mts, q) ==
               IF q > Cardinality(Providers) THEN mts
               ELSE queue(IF q \in gone
                          THEN Append(mts, [provider |-> q,
                                            currentRuntime |-> effectRuntime[q]])
                          ELSE mts, q + 1)
       IN  /\ mounted' = [q \in Providers |-> mounted[q] /\ q \notin gone]
           /\ microtasks' = queue(microtasks, 1)
           /\ layer' = [q \in Providers |-> IF q \in gone THEN 0 ELSE layer[q]]
           /\ effectiveLayer' = [q \in Providers |->
                                   IF q \in gone THEN NoLayer ELSE effectiveLayer[q]]
           /\ runtime' = [q \in Providers |->
                            IF q \in gone THEN NoRuntime ELSE runtime[q]]
           /\ effectRuntime' = [q \in Providers |->
                                  IF q \in gone THEN NoRuntime ELSE effectRuntime[q]]
    /\ UNCHANGED <<activeRuntimeRef, runtimes, leaked, strictMode, hookVars, storeVars>>

\* Provider p and everything below it leave the tree: both effect cleanups
\* run for each of them (EffectProvider.tsx 90-103, 108-112).
ProviderUnmount(p) ==
    /\ mounted[p]
    /\ microtasks = <<>>
    /\ LET gone == {q \in {p} \cup Descendants(p) : mounted[q]}
           RECURSIVE queue(_, _)
           queue(mts, q) ==
               IF q > Cardinality(Providers) THEN mts
               ELSE queue(IF q \in gone
                          THEN Append(mts, [provider |-> q,
                                            currentRuntime |-> effectRuntime[q]])
                          ELSE mts, q + 1)
       IN  /\ mounted' = [q \in Providers |-> mounted[q] /\ q \notin gone]
           /\ microtasks' = queue(microtasks, 1)
           /\ activeRuntimeRef' = [q \in Providers |->
                                     IF q \in gone THEN NoRuntime ELSE activeRuntimeRef[q]]
           /\ layer' = [q \in Providers |-> IF q \in gone THEN 0 ELSE layer[q]]
           /\ effectiveLayer' = [q \in Providers |->
                                   IF q \in gone THEN NoLayer ELSE effectiveLayer[q]]
           /\ runtime' = [q \in Providers |->
                            IF q \in gone THEN NoRuntime ELSE runtime[q]]
           /\ effectRuntime' = [q \in Providers |->
                                  IF q \in gone THEN NoRuntime ELSE effectRuntime[q]]
    /\ UNCHANGED <<runtimes, leaked, strictMode, hookVars, storeVars>>

\* The runtimes something still refers to once the microtasks mts are left:
\* those a provider holds, those a queued microtask captured, and those whose
\* instances a kept runtime's context carries.
RECURSIVE reachable(_, _)
reachable(rts, keep) ==
    LET more == {i[1] : i \in {rts[r].context[t] : r \in keep, t \in Tags} \ {NoInstance}}
    IN  IF more \subseteq keep THEN keep ELSE reachable(rts, keep \cup more)

referenced(rts, mts) ==
    reachable(rts, ({runtime[p] : p \in Providers}
                    \cup {effectRuntime[p] : p \in Providers}
                    \cup {mts[i].currentRuntime : i \in DOMAIN mts}) \ {NoRuntime})

\* The oldest queued microtask runs (EffectProvider.tsx 95-102):
\* currentRuntime.dispose() unless it is still the active runtime.
RunMicrotask ==
    /\ microtasks # <<>>
    /\ LET m    == Head(microtasks)
           rts  == IF activeRuntimeRef[m.provider] # m.currentRuntime
                   THEN [runtimes EXCEPT ![m.currentRuntime].disposed = TRUE]
                   ELSE runtimes
           keep == referenced(rts, Tail(microtasks))
       IN  /\ runtimes' = [r \in keep |-> rts[r]]
           /\ leaked' = (leaked \/ \E r \in DOMAIN rts \ keep : ~rts[r].disposed)
    /\ microtasks' = Tail(microtasks)
    /\ UNCHANGED <<mounted, layer, effectiveLayer, runtime, activeRuntimeRef,
                   effectRuntime, strictMode, hookVars, storeVars>>

\* The instance a component under provider p gets for tag t.
Resolve(p, t) == runtimes[runtime[p]].context[t]

ProviderIdle ==
    /\ mounted = [p \in Providers |-> FALSE]
    /\ layer = [p \in Providers |-> 0]
    /\ effectiveLayer = [p \in Providers |-> NoLayer]
    /\ runtime = [p \in Providers |-> NoRuntime]
    /\ activeRuntimeRef = [p \in Providers |-> NoRuntime]
    /\ effectRuntime = [p \in Providers |-> NoRuntime]
    /\ runtimes = <<>>
    /\ microtasks = <<>>
    /\ leaked = FALSE

HookIdle ==
    /\ hook = "none"
    /\ phase = "unmounted"
    /\ store = Loading
    /\ pendingStore = FALSE
    /\ fiberRef = 0
    /\ effectFiber = 0
    /\ fibers = <<>>
    /\ nextValue = 1
    /\ lateSets = 0
    /\ hookRuntime = 0
    /\ state = 0
    /\ currentState = 0
    /\ burst = TRUE

InitProvider == ProviderIdle /\ HookIdle /\ StoreIdle /\ strictMode \in BOOLEAN

NextProvider ==
    \/ \E p \in Providers, l \in Layers : ProviderMount(p, l)
    \/ \E p \in Providers, l \in Layers : ProviderRender(p, l)
    \/ \E p \in Providers : ProviderUnmount(p)
    \/ RunMicrotask

SpecProvider == InitProvider /\ [][NextProvider]_vars

----------------------------------------------------------------------------
(* One component instance using one hook *)

\* The component before its first render, under a provider or not, with the
\* stores as the first render creates them: useEffectCallback's starts
\* Initial, useEffectReducer's holds the initial state, the others start
\* Loading.  Only useEffectStateAsync starts pending.
Init ==
    /\ hook \in Hooks
    /\ phase = "unrendered"
    /\ hookRuntime \in {0, 1}
    /\ state = 0
    /\ currentState = 0
    /\ store = IF hook = "useEffectCallback" THEN Initial
               ELSE IF hook = "useEffectReducer" THEN State(0)
               ELSE IF hook = "useEffectState" THEN NoState
               ELSE Loading
    /\ pendingStore = (hook = "useEffectStateAsync")
    /\ fiberRef = 0
    /\ effectFiber = 0
    /\ fibers = <<>>
    /\ nextValue = 1
    /\ lateSets = 0
    /\ burst = TRUE
    /\ ProviderIdle
    /\ strictMode = FALSE
    /\ StoreIdle

Next ==
    \/ FirstRender
    \/ \E k \in Kinds, i \in BOOLEAN, s \in BOOLEAN : RunEffectMount(k, i, s)
    \/ \E k \in Kinds, i \in BOOLEAN, s \in BOOLEAN : RunEffectDepsChange(k, i, s)
    \/ RunEffectUnmount
    \/ \E f \in DOMAIN fibers : RunEffectSettle(f)
    \/ \E k \in Kinds, i \in BOOLEAN, s \in BOOLEAN : CallbackRun(k, i, s)
    \/ CallbackReset
    \/ CallbackUnmount
    \/ \E f \in DOMAIN fibers : CallbackSettle(f)
    \/ \E k \in Kinds, i \in BOOLEAN, s \in BOOLEAN : ServiceMount(k, i, s)
    \/ \E k \in Kinds, i \in BOOLEAN, s \in BOOLEAN : ServiceDepsChange(k, i, s)
    \/ ServiceUnmount
    \/ \E f \in DOMAIN fibers : ServiceSettle(f)
    \/ \E k \in Kinds, i \in BOOLEAN, s \in BOOLEAN : StateAsyncMount(k, i, s)
    \/ \E k \in Kinds, i \in BOOLEAN, s \in BOOLEAN : StateAsyncSetEffect(k, i, s)
    \/ StateAsyncSetPlain
    \/ StateAsyncUnmount
    \/ \E f \in DOMAIN fibers : StateAsyncSettle(f)
    \/ \E k \in Kinds, i \in BOOLEAN, s \in BOOLEAN : ReducerDispatchEffect(k, i, s)
    \/ ReducerDispatchPlain
    \/ ReducerUnmount
    \/ \E f \in DOMAIN fibers : ReducerSettle(f)
    \/ ReducerRender
    \/ \E k \in Kinds, s \in BOOLEAN : EffectStateRender(k, s)
    \/ \E k \in Kinds, s \in BOOLEAN : EffectStateSetEffect(k, s)
    \/ EffectStateSetPlain
    \/ EffectStateUnmount
    \/ \E f \in DOMAIN fibers : EffectStateSettle(f)
    \/ \E k \in Kinds, i \in BOOLEAN, n \in 0..MaxEmissions : StreamMount(k, i, n)
    \/ \E f \in DOMAIN fibers : StreamEmit(f)
    \/ \E f \in DOMAIN fibers : StreamEnd(f)
    \/ StreamUnmount

Spec == Init /\ [][Next]_vars

\* The same component under a provider that rebuilds its runtime (its layer
\* prop got a new reference, or a provider above it rebuilt): the context
\* hands the component a new runtime and the component renders again.
NextRebuild ==
    \/ Next
    \/ \E k \in Kinds, i \in BOOLEAN, s \in BOOLEAN : RunEffectRuntimeChange(k, i, s)
    \/ CallbackRuntimeChange
    \/ \E k \in Kinds, i \in BOOLEAN, s \in BOOLEAN : ServiceRuntimeChange(k, i, s)
    \/ \E k \in Kinds, i \in BOOLEAN, s \in BOOLEAN : StateAsyncRuntimeChange(k, i, s)
    \/ ReducerRuntimeChange
    \/ EffectStateRuntimeChange
    \/ StreamRuntimeChange

SpecRebuild == Init /\ [][NextRebuild]_vars

----------------------------------------------------------------------------
(* One component store, its host and its listeners *)

InitStore == StoreIdle /\ HookIdle /\ ProviderIdle /\ strictMode = FALSE

NextStore ==
    \/ \E op \in Ops : HostCall(op)
    \/ \E op \in Ops : ListenerRuns(op)
    \/ ReturnFromSet

SpecStore == InitStore /\ [][NextStore]_vars

----------------------------------------------------------------------------
(* Claims *)

Outcome(fib) ==
    IF fib.exit = "Success" THEN Success(fib.value) ELSE Failure(fib.value)

Earlier(origin) ==
    {f \in DOMAIN fibers : f < Len(fibers) /\ fibers[f].origin = origin}

\* C1: useEffectCallback, last run wins.  After N >= 2 run() calls made
\* before any earlier fiber settled, the store never holds the outcome of a
\* run other than the most recent one, and once every fiber has settled it
\* holds the outcome of the most recent run.
C1_LastRunWins ==
    (hook = "useEffectCallback" /\ phase = "mounted" /\ burst /\ Len(fibers) >= 2)
    => /\ \A f \in Earlier("run") :
             store.tag \in {"Success", "Failure"} => store.value # fibers[f].value
       /\ (Running(fibers) = {} /\ fibers[Len(fibers)].exit \in {"Success", "Failure"})
             => store = Outcome(fibers[Len(fibers)])

\* C2: useEffectStateAsync, later setter Effect wins.  After setter calls
\* that pass Effects while the earlier setter Effects are still running, the
\* outcome of an earlier setter Effect is never in the result store, and once
\* every fiber has settled the store holds the outcome of the last one.
C2_LaterSetterWins ==
    (/\ hook = "useEffectStateAsync" /\ phase = "mounted" /\ burst
     /\ Len(fibers) >= 2 /\ fibers[Len(fibers)].origin = "setter"
     /\ Earlier("setter") # {})
    => /\ \A f \in Earlier("setter") :
             store.tag \in {"Success", "Failure"} => store.value # fibers[f].value
       /\ (Running(fibers) = {} /\ fibers[Len(fibers)].exit \in {"Success", "Failure"})
             => store = Outcome(fibers[Len(fibers)])

\* C3: after the component using useRunEffect has unmounted, no store.set is
\* called on the hook's store.
C3_NoSetAfterUnmount ==
    hook = "useRunEffect" => lateSets = 0

\* C4: when the component using useEffectCallback unmounts, every fiber that
\* has not settled has interruption requested, and no store.set is called on
\* the hook's store after the unmount.
C4_UnmountInterruptsAll ==
    (hook = "useEffectCallback" /\ phase = "unmounted")
    => /\ \A f \in Running(fibers) : fibers[f].req
       /\ lateSets = 0

\* C5: useRunEffect, once a dependency change has started a new fiber the
\* store never holds the Success or Failure of a fiber started for earlier
\* dependencies; after all fibers settled it holds the latest outcome.
C5_RunEffectSupersession ==
    (hook = "useRunEffect" /\ phase = "mounted")
    => /\ store.tag \in {"Success", "Failure"}
             => store.value = fibers[effectFiber].value
       /\ (Running(fibers) = {} /\ fibers[effectFiber].exit \in {"Success", "Failure"})
             => store = Outcome(fibers[effectFiber])

\* C6: when the effects of a mounted EffectProvider were cleaned up and set
\* up again with no render in between, then once the deferred microtask has
\* run the provider still provides the runtime its effect captured and
\* dispose() has not been called on it.
C6_DoubleAttachKeepsRuntime ==
    \A p \in Providers :
        (mounted[p] /\ activeRuntimeRef[p] = NoRuntime /\ microtasks = <<>>)
        => (runtime[p] = effectRuntime[p] /\ ~runtimes[runtime[p]].disposed)

\* C7: inheritance identity.  Every tag present in the parent's context and
\* not declared by the child's layer resolves under the child to the same
\* instance as under the parent.
C7_InheritanceIdentity ==
    \A p \in Providers :
        (mounted[p] /\ Parent[p] # 0)
        => \A t \in Tags :
              (Resolve(Parent[p], t) # NoInstance /\ t \notin LayerTags(layer[p]))
              => Resolve(p, t) = Resolve(Parent[p], t)

C7_Witness ==
    \E p \in Providers :
        /\ mounted[p] /\ Parent[p] # 0
        /\ \E t \in Tags :
              /\ t \notin LayerTags(layer[p])
              /\ Resolve(Parent[p], t) = <<<<Parent[p], 2>>, t>>
              /\ Resolve(p, t) = Resolve(Parent[p], t)

\* The deepest provider at or above p whose layer declares tag t (0: none).
RECURSIVE Declaring(_, _)
Declaring(p, t) ==
    IF p = 0 THEN 0
    ELSE IF t \in LayerTags(layer[p]) THEN p
    ELSE Declaring(Parent[p], t)

\* C8: override and nearest-ancestor resolution.  Under provider p a tag
\* resolves to the instance built by the runtime of the deepest provider at
\* or above p whose layer declares it, whatever providers that are not above
\* p declare.
C8_NearestAncestor ==
    \A p \in Providers :
        mounted[p]
        => \A t \in Tags :
              Resolve(p, t) = IF Declaring(p, t) = 0 THEN NoInstance
                              ELSE <<runtime[Declaring(p, t)], t>>

C8_Witness ==
    /\ \A p \in Providers : mounted[p]
    /\ Declaring(3, "A") = 1 /\ Resolve(3, "A") = <<runtime[1], "A">>
    /\ Declaring(3, "B") = 3 /\ Declaring(2, "B") = 2
    /\ Declaring(4, "A") = 4 /\ Resolve(4, "A") # Resolve(2, "A")

C10_InterruptionProjectsNothing ==
    [][\A f \in DOMAIN fibers :
          (~fibers[f].done /\ fibers'[f].done /\ fibers'[f].exit = "Interrupted")
          => store' = store]_vars

C10_Witness ==
    /\ hook = "useEffectStateAsync"
    /\ store.tag = "Success"
    /\ \E f \in DOMAIN fibers : fibers[f].exit = "Interrupted"

\* The fiber f exits in this step (inside runFork, or reported later).
Exits(f) ==
    /\ f \in DOMAIN fibers'
    /\ fibers'[f].done
    /\ IF f \in DOMAIN fibers THEN ~fibers[f].done ELSE TRUE

\* C11: terminal projection in useRunEffect.  The store is Loading as long
\* as no fiber has exited; when the fiber of the latest run of the effect
\* exits with Success(v) the store becomes Success(v), and when it exits with
\* the typed failure e the store becomes Failure(e).
C11_TerminalProjection ==
    /\ []((hook = "useRunEffect" /\ Running(fibers) = DOMAIN fibers) => store = Loading)
    /\ [][hook = "useRunEffect" =>
            \A f \in DOMAIN fibers' :
                (f = effectFiber' /\ Exits(f))
                => /\ fibers'[f].exit = "Success" => store' = Success(fibers'[f].value)
                   /\ fibers'[f].exit = "Failure" => store' = Failure(fibers'[f].value)]_vars

C11_Witness ==
    /\ hook = "useRunEffect"
    /\ Len(fibers) >= 2
    /\ effectFiber = Len(fibers)
    /\ fibers[effectFiber].exit = "Failure"
    /\ store = Failure(fibers[effectFiber].value)
    /\ \E f \in Earlier("effect") : fibers[f].exit = "Success"

\* C12: only interruption is swallowed in useEffectCallback.  When the fiber
\* of the latest run() exits with anything but interruption only (success,
\* typed failure or defect), the state leaves Loading: the result is Success
\* or Failure.
C12_OnlyInterruptionSwallowed ==
    [][hook = "useEffectCallback" =>
          \A f \in DOMAIN fibers' :
              (f = Len(fibers') /\ Exits(f) /\ fibers'[f].exit # "Interrupted")
              => (store'.tag \in {"Success", "Failure"})]_vars

\* C13: a missing service is reported as Failure.  When the computation run
\* by useRunEffect, or the tag resolved by useService, asks for a service
\* absent from the provider's context, the hook's store becomes Failure when
\* the fiber of the latest run exits.
C13_MissingServiceIsFailure ==
    [][(hook \in {"useRunEffect", "useService"}) =>
          \A f \in DOMAIN fibers' :
              (f = effectFiber' /\ Exits(f) /\ fibers'[f].exit = serviceNotFound)
              => (store'.tag = "Failure")]_vars

\* The setter fiber f was superseded: the setter was called again (with an
\* Effect or a plain value) after the call that started f.
Superseded(f) ==
    \E v \in (fibers[f].value + 1)..(nextValue - 1) :
        \A g \in DOMAIN fibers : fibers[g].value = v => fibers[g].origin = "setter"

\* The fibers isPending is about: the fiber of the latest run of the initial
\* effect, and the setter fiber that has not been superseded.
InFlight ==
    {f \in Running(fibers) :
        IF fibers[f].origin = "initial" THEN f = effectFiber ELSE ~Superseded(f)}

\* C17: useEffectStateAsync isPending.  While the component is mounted,
\* isPending is true whenever the initial fiber or a setter fiber that has
\* not been superseded is in flight, and false once no fiber is in flight.
C17_IsPending ==
    (hook = "useEffectStateAsync" /\ phase = "mounted")
    => /\ InFlight # {} => pendingStore
       /\ Running(fibers) = {} => ~pendingStore

\* The setter is called with a plain value in this step.
SetsPlain ==
    /\ hook = "useEffectStateAsync"
    /\ nextValue' = nextValue + 1
    /\ Len(fibers') = Len(fibers)

\* C18: useEffectStateAsync, plain value over a running setter Effect.
\* Right after the setter is called with a plain value while a setter fiber
\* is in flight (and no other fiber is), isPending is false and the result is Success of the plain
\* value; the exit of the fiber that call interrupted changes the result no
\* more.
C18_PlainOverRunningSetter ==
    [][/\ (SetsPlain /\ fiberRef # 0 /\ Running(fibers) = {fiberRef})
          => (pendingStore' = FALSE /\ store' = Success(nextValue))
       /\ \A f \in DOMAIN fibers :
             (/\ hook = "useEffectStateAsync" /\ fibers[f].origin = "setter"
              /\ fibers[f].req /\ Exits(f)
              /\ \A g \in DOMAIN fibers : fibers[g].value <= fibers[f].value)
             => store' = store]_vars

\* The reducer returns a plain value for the action dispatched in this step.
DispatchesPlain ==
    /\ hook = "useEffectReducer"
    /\ nextValue' = nextValue + 1
    /\ Len(fibers') = Len(fibers)

\* C19: useEffectReducer, last async dispatch wins.  The observer of a fiber
\* that is not the most recently dispatched one changes neither the state nor
\* isPending; after dispatches of Effects made while the earlier ones were in
\* flight, once all have settled (in any order) the state is the success of
\* the most recently dispatched one.
C19_LastDispatchWins ==
    /\ [][hook = "useEffectReducer" =>
            \A f \in DOMAIN fibers :
                (f < Len(fibers) /\ Exits(f))
                => (store' = store /\ pendingStore' = pendingStore)]_vars
    /\ []((/\ hook = "useEffectReducer" /\ phase = "mounted" /\ burst
           /\ Len(fibers) >= 2 /\ Running(fibers) = {}
           /\ fibers[Len(fibers)].exit = "Success")
          => store = State(fibers[Len(fibers)].value))

C19_Witness ==
    /\ hook = "useEffectReducer" /\ phase = "mounted" /\ burst
    /\ Len(fibers) >= 3 /\ Running(fibers) = {}
    /\ fibers[1].exit = "Success" /\ fibers[2].exit = "Interrupted"
    /\ store = State(fibers[Len(fibers)].value)
    /\ ~pendingStore

\* C20: useEffectReducer, a sync dispatch overrides a pending async one.
\* Right after a dispatch whose reducer result is a plain value, made while a
\* reducer Effect is in flight, the state is that value and isPending is
\* false; the exit of the Effect that was in flight changes the state no
\* more.
C20_SyncDispatchOverrides ==
    [][/\ (DispatchesPlain /\ fiberRef # 0)
          => (store' = State(nextValue) /\ pendingStore' = FALSE)
       /\ \A f \in DOMAIN fibers :
             (/\ hook = "useEffectReducer" /\ f = Len(fibers) /\ Exits(f)
              /\ nextValue > fibers[f].value + 1)
             => store' = store]_vars

C20_Witness ==
    /\ hook = "useEffectReducer" /\ phase = "mounted"
    /\ Len(fibers) = 1 /\ fibers[1].req /\ fibers[1].exit = "Success"
    /\ store = State(2)
    /\ ~pendingStore

\* The innermost set() in progress returns in this step.
Returns ==
    /\ passes # <<>>
    /\ passes' = SubSeq(passes, 1, Len(passes) - 1)

\* C14: a set with the identical value is a no-op.  A call set(v) made when
\* the current value is identical to v leaves the value as it is and starts
\* no loop over the listeners, so no listener is invoked for it.
C14_IdenticalSetIsNoOp ==
    [][(calls' = calls + 1 /\ arg' = currentValue)
       => /\ currentValue' = currentValue
          /\ writer' = writer
          /\ Len(passes') = Len(passes)]_vars

\* Two listeners were notified of set call 1; the same value was set again
\* by call 2, which has returned without notifying them.
C14_Witness ==
    /\ calls = 2 /\ writer = 1 /\ arg = currentValue
    /\ passes = <<>>
    /\ Len(listeners) = 2
    /\ \A l \in Range(listeners) : seen[l] = 1

\* C15: notification uses a stable snapshot of the listeners.  During one
\* set call only listeners registered when set was called are invoked (one
\* subscribed from inside a callback is not), and when the call returns every
\* listener registered when it was called has been invoked (also one
\* unsubscribed from inside a callback before its turn).
C15_StableSnapshot ==
    /\ [](\A k \in DOMAIN passes :
             Range(passes[k].invoked) \subseteq Range(passes[k].snapshot))
    /\ [][Returns => Range(passes[Len(passes)].snapshot)
                         \subseteq Range(passes[Len(passes)].invoked)]_vars

\* C16: notification order.  A set call that changes the value has, when it
\* returns, invoked each listener registered at the call exactly once and in
\* registration order; the values a listener reads in its successive
\* invocations were written by set calls in the order of the calls.
C16_NotificationOrder ==
    /\ [][Returns => passes[Len(passes)].invoked = passes[Len(passes)].snapshot]_vars
    /\ [][\A l \in Listeners : seen'[l] >= seen[l]]_vars

\* C25: no implicit default runtime.  A hook that needs the runtime and is
\* rendered with no EffectProvider above it throws in its first render: the
\* component never mounts and no computation is run.
C25_NoDefaultRuntime ==
    hookRuntime = 0 => (phase \in {"unrendered", "threw"} /\ fibers = <<>>)

C25_Witness ==
    /\ hook = "useRunEffect"
    /\ hookRuntime = 0
    /\ phase = "threw"

\* C26: useEffectCallback tracks exactly one active fiber.  While mounted,
\* fiberRef is the most recently started fiber as long as that fiber has not
\* settled and nothing asked to interrupt it, and is null once it has
\* settled; the exit observer of an older fiber never clears the reference
\* to a newer fiber.
C26_OneActiveFiber ==
    /\ [](LET last == Len(fibers)
          IN  (hook = "useEffectCallback" /\ phase = "mounted" /\ last > 0)
              => /\ fibers[last].done => fiberRef = 0
                 /\ (~fibers[last].done /\ ~fibers[last].req) => fiberRef = last)
    /\ [][(hook = "useEffectCallback") =>
             \A f \in DOMAIN fibers :
                 (Exits(f) /\ fiberRef # 0 /\ f # fiberRef) => fiberRef' = fiberRef]_vars

\* The result holds a value the setter established after fiber f started: a
\* plain value passed to it, or the outcome of a setter fiber.
HoldsSetterValueSince(f) ==
    /\ store.tag \in {"Success", "Failure"}
    /\ store.value > fibers[f].value
    /\ \A g \in DOMAIN fibers :
           fibers[g].value = store.value => fibers[g].origin = "setter"

\* C27: useEffectStateAsync, initial load against the setter.  When the
\* setter was called (with a plain value or an Effect) while a fiber of the
\* initial Effect was running and the result holds the value the setter
\* established, the later exit of that fiber leaves the result as it is.
C27_SetterBeatsInitialLoad ==
    [][(hook = "useEffectStateAsync") =>
          \A f \in DOMAIN fibers :
              (fibers[f].origin = "initial" /\ HoldsSetterValueSince(f) /\ Exits(f))
              => store' = store]_vars

\* C28: useRunEffect shows Loading on every (re)start.  While mounted, from
\* the run of the effect body until the fiber it forked settles the store is
\* Loading, never the Success or Failure of a previous run.
C28_LoadingUntilSettled ==
    (hook = "useRunEffect" /\ phase = "mounted" /\ ~fibers[effectFiber].done)
    => store = Loading

\* C29: useEffectReducer isPending matches the active fiber.  While mounted,
\* isPending is true exactly when fiberRef refers to a fiber that has not
\* settled.
C29_PendingMatchesActiveFiber ==
    (hook = "useEffectReducer" /\ phase = "mounted")
    => (pendingStore <=> (fiberRef # 0 /\ ~fibers[fiberRef].done))

\* isPending is true for the fiber of the latest dispatch after the exit of
\* an earlier, superseded fiber was observed.
C29_Witness ==
    /\ hook = "useEffectReducer"
    /\ phase = "mounted"
    /\ pendingStore
    /\ fiberRef = Len(fibers)
    /\ \E f \in Earlier("dispatch") : fibers[f].done

\* C30: useEffectReducer on failure.  When the active reducer Effect (the
\* fiber fiberRef holds, or the one a dispatch forks and finds done) exits
\* with a typed failure or a defect, the state store is left unchanged and
\* isPending is false afterwards.
C30_FailureKeepsState ==
    [][(hook = "useEffectReducer") =>
          \A f \in DOMAIN fibers' :
              (/\ Exits(f)
               /\ IF f \in DOMAIN fibers THEN fiberRef = f ELSE TRUE
               /\ fibers'[f].exit \in {"Failure", "Die"})
              => (store' = store /\ pendingStore' = FALSE)]_vars

\* The fiber of the latest dispatch failed while active, after an earlier
\* dispatch had set the state, and the state is still that one.
C30_Witness ==
    /\ hook = "useEffectReducer"
    /\ phase = "mounted"
    /\ fibers # <<>>
    /\ fibers[Len(fibers)].done
    /\ fibers[Len(fibers)].exit = "Failure"
    /\ ~fibers[Len(fibers)].req
    /\ store.value # 0
    /\ store.value < fibers[Len(fibers)].value
    /\ ~pendingStore

\* The initial load has produced Success or Failure and no fiber of the
\* initial Effect is left running.
InitialLoaded ==
    /\ effectFiber # 0
    /\ fibers[effectFiber].exit \in {"Success", "Failure"}
    /\ \A g \in DOMAIN fibers : fibers[g].origin = "initial" => fibers[g].done
    /\ store.tag \in {"Success", "Failure"}

\* C21: useEffectStateAsync shows no Loading on setter Effects.  Once the
\* initial load has produced Success or Failure, the result never returns to
\* Loading, the call of the setter with an Effect that does not finish at
\* once leaves the result as it is, and so does every step up to the exit
\* of that Effect's fiber as long as the setter is not called again.
C21_NoLoadingOnSetterEffect ==
    [][(hook = "useEffectStateAsync" /\ phase = "mounted" /\ InitialLoaded) =>
          /\ store'.tag # "Loading"
          /\ (/\ Len(fibers') = Len(fibers) + 1
              /\ fibers'[Len(fibers')].origin = "setter"
              /\ ~fibers'[Len(fibers')].done) => store' = store
          /\ \A f \in DOMAIN fibers :
                (/\ fibers[f].origin = "setter"
                 /\ ~fibers[f].done
                 /\ fibers[f].value = nextValue - 1
                 /\ nextValue' = nextValue
                 /\ ~Exits(f)) => store' = store]_vars

\* C24: synchronous fast path of useEffectState.  The state is never
\* Loading; the component that has rendered holds the value of the initial
\* Effect from its first render on; a setter call with a plain value or with
\* an Effect that succeeds without suspending makes the new value the state
\* within that call.
C24_SyncFastPath ==
    /\ [](hook = "useEffectState" =>
             /\ store.tag \in {"NoState", "State"}
             /\ phase \in {"mounted", "unmounted"} => store.tag = "State")
    /\ [][(hook = "useEffectState") =>
             /\ (phase = "unrendered" /\ phase' = "mounted")
                   => store' = State(fibers'[1].value)
             /\ (/\ phase = "mounted"
                 /\ nextValue' = nextValue + 1
                 /\ \/ Len(fibers') = Len(fibers)
                    \/ /\ fibers'[Len(fibers')].done
                       /\ fibers'[Len(fibers')].exit = "Success")
                   => store' = State(nextValue)]_vars

\* The setter was called with a synchronous Effect and its value is the
\* state.
C24_Witness ==
    /\ hook = "useEffectState"
    /\ phase = "mounted"
    /\ Len(fibers) >= 2
    /\ fibers[Len(fibers)].done
    /\ fibers[Len(fibers)].exit = "Success"
    /\ store = State(fibers[Len(fibers)].value)

\* C23: a runtime rebuild cancels stale tasks.  When the runtime provided to
\* a component using useRunEffect, useEffectCallback, useEffectStateAsync or
\* useEffectReducer changes, every fiber of the hook that is still in flight
\* afterwards and was forked before the change has interruption requested.
C23_RebuildCancelsStaleTasks ==
    [][(/\ hook \in {"useRunEffect", "useEffectCallback", "useEffectStateAsync",
                     "useEffectReducer"}
        /\ hookRuntime' # hookRuntime)
       => \A f \in Running(fibers) : f \in Running(fibers') => fibers'[f].req]_vars

\* The runtime r is the one a mounted provider provides.
Active(r) == \E p \in Providers : mounted[p] /\ runtime[p] = r

\* A queued microtask will call dispose() on r when it runs.
DisposalQueued(r) ==
    \E i \in DOMAIN microtasks :
        /\ microtasks[i].currentRuntime = r
        /\ activeRuntimeRef[microtasks[i].provider] # r

\* C22: runtime disposal is eventual and deferred.  A runtime that is no
\* longer active (its provider unmounted, or a layer change replaced it) is
\* disposed or has a queued microtask that will dispose it, a queued
\* microtask can always run, and no runtime is dropped undisposed; dispose()
\* is called in no step but the run of the queued microtask that captured
\* the runtime.
C22_DisposalEventualAndDeferred ==
    /\ [](/\ \A r \in DOMAIN runtimes :
                 ~Active(r) => (runtimes[r].disposed \/ DisposalQueued(r))
          /\ microtasks # <<>> => ENABLED RunMicrotask
          /\ ~leaked)
    /\ [][\A r \in DOMAIN runtimes \cap DOMAIN runtimes' :
             (~runtimes[r].disposed /\ runtimes'[r].disposed)
             => /\ microtasks # <<>>
                /\ microtasks' = Tail(microtasks)
                /\ Head(microtasks).currentRuntime = r]_vars

\* Not under StrictMode, a provider and its child were unmounted: the first
\* microtask has run and disposed a runtime that is no longer active, the
\* next one is queued for another.
C22_Witness ==
    /\ ~strictMode
    /\ \E r \in DOMAIN runtimes : ~Active(r) /\ runtimes[r].disposed
    /\ \E r \in DOMAIN runtimes :
          ~Active(r) /\ ~runtimes[r].disposed /\ DisposalQueued(r)

\* C31: useEffectReducer sync dispatches compose like a fold.  In every
\* dispatch whose reducer result is a plain value, the state the reducer is
\* given is the state the previous dispatch left in the store (whether or
\* not the component has rendered in between), and the reducer's result is
\* the state afterwards.  State(nextValue) stands for the result of the
\* reducer call of the dispatch labelled nextValue.
C31_SyncDispatchesFold ==
    [][DispatchesPlain => (currentState' = store.value /\ store' = State(nextValue))]_vars

\* Two plain dispatches within one synchronous phase: the second was given
\* the result of the first while the last render still shows the initial
\* state.
C31_Witness ==
    /\ hook = "useEffectReducer"
    /\ state = 0
    /\ currentState = 1
    /\ store = State(2)

\* The providers at or above p.
RECURSIVE Above(_)
Above(p) == IF p = 0 THEN {} ELSE {p} \cup Above(Parent[p])

\* C32: a nested scope stays consistent with its parent.  The runtime of a
\* mounted child was built from the runtime its parent provides now: the
\* child's merged layer holds the context of that runtime, every tag the
\* child's layer does not declare resolves under the child as under the
\* parent, and every instance the child resolves was built by a runtime
\* that a provider at or above it provides now.  Every render pass that
\* replaces the parent's runtime replaces the child's, and a pass that
\* leaves both layer references (and the runtime above the parent) as they
\* are replaces neither.
C32_NestedScopeConsistent ==
    /\ [](\A q \in Providers :
             (mounted[q] /\ Parent[q] # 0)
             => /\ effectiveLayer[q].deps[1] = runtime[Parent[q]]
                /\ effectiveLayer[q].parentContext = runtimes[runtime[Parent[q]]].context
                /\ \A t \in Tags :
                      /\ t \notin LayerTags(layer[q])
                            => Resolve(q, t) = Resolve(Parent[q], t)
                      /\ Resolve(q, t) # NoInstance
                            => \E a \in Above(q) : Resolve(q, t)[1] = runtime[a])
    /\ [][\A q \in Providers :
             (mounted[q] /\ mounted'[q] /\ Parent[q] # 0)
             => /\ runtime'[Parent[q]] # runtime[Parent[q]] => runtime'[q] # runtime[q]
                /\ (/\ layer'[q] = layer[q]
                    /\ layer'[Parent[q]] = layer[Parent[q]]
                    /\ IF Parent[Parent[q]] = 0 THEN TRUE
                       ELSE runtime'[Parent[Parent[q]]] = runtime[Parent[Parent[q]]])
                   => /\ runtime'[q] = runtime[q]
                      /\ runtime'[Parent[q]] = runtime[Parent[q]]]_vars

\* The parent's layer reference changed, parent and child both rebuilt, the
\* runtimes they replaced are gone, and the child resolves the tag it does
\* not declare to the instance of the parent's new runtime.
C32_Witness ==
    /\ mounted[1] /\ mounted[2]
    /\ microtasks = <<>>
    /\ runtime[1] = <<1, 2>>
    /\ runtime[2] = <<2, 2>>
    /\ \E t \in Tags :
          t \notin LayerTags(layer[2]) /\ Resolve(2, t) = <<<<1, 2>>, t>>

\* The instance a component under provider p gets for tag t after the step.
ResolveNext(p, t) == runtimes'[runtime'[p]].context[t]

\* Provider p renders in this step with a layer that is structurally
\* identical to the one of its last render and a new reference.
Churns(p) ==
    /\ mounted[p] /\ mounted'[p]
    /\ layer'[p] # layer[p]
    /\ LayerTags(layer'[p]) = LayerTags(layer[p])

\* Provider p keeps its layer reference in this step.
KeepsLayer(p) ==
    /\ mounted[p] /\ mounted'[p]
    /\ layer'[p] = layer[p]

C34_ResetHolds ==
    [][(hook = "useEffectCallback") =>
          /\ (store # Initial /\ store' = Initial)
                => \A f \in Running(fibers') : fibers'[f].req
          /\ (store = Initial /\ Len(fibers') = Len(fibers))
                => store' = Initial]_vars

C36_Idempotent ==
    /\ [](/\ Cardinality(Range(listeners)) = Len(listeners)
          /\ \A l \in Listeners :
                LET on  == subscribe(Store, l)
                    off == unsubscribe(Store, l)
                IN  /\ subscribe(on, l) = on
                    /\ Cardinality({i \in DOMAIN on.listeners : on.listeners[i] = l}) = 1
                    /\ unsubscribe(off, l) = off
                    /\ l \notin Range(off.listeners)
          /\ \A k \in DOMAIN passes : passes[k].cursor \in 0..Len(listeners))
    /\ [][(Returns /\ ~passes[Len(passes)].changed)
             => /\ passes[Len(passes)].invoked = passes[Len(passes)].snapshot
                /\ passes[Len(passes)].snapshot = listeners]_vars

\* A listener was subscribed again while registered; a set call that changed
\* the value has then notified it and the other listener and has returned.
C36_Witness ==
    /\ repeated
    /\ Len(listeners) = 2
    /\ passes = <<>>
    /\ writer = calls /\ calls > 0
    /\ \A l \in Range(listeners) : seen[l] = writer

\* The outermost set() in progress has come to the end of its loop, and a
\* listener called set with a different value while it ran.
ReentrantSetDone ==
    /\ Len(passes) = 1
    /\ passes[1].cursor >= Len(listeners)
    /\ writer > passes[1].call

\* C37: re-entrant set.  When the outermost set call returns after a
\* listener has called set with a different value during its notification,
\* getSnapshot returns the value written last and every registered listener
\* has been invoked after that value was written.
C37_ReentrantSet ==
    ReentrantSetDone
    => /\ currentValue = arg
       /\ \A l \in Range(listeners) : seen[l] = writer

C37_Witness ==
    /\ ReentrantSetDone
    /\ Len(listeners) = 2
    /\ passes[1].call = 1
    /\ writer = 2

====
